---- MODULE Spec2Model ----
(***************************************************************************)
(* A model of the oop_regex_toolkit sources:                               *)
(*   src/src/regex_tester.py  RegexCompiler (the pattern cache) and        *)
(*                            RegexMatcher (match, find_all, replace)      *)
(*   src/src/exceptions.py    validate_regex, find_pattern and the error   *)
(*                            classes with their RegexContext              *)
(*   src/src/regex_documentor.py  RegexDocumenter.document_pattern         *)
(*   src/src/utils.py         RegexUtils.escape_special_chars and          *)
(*                            extract_pattern_components                   *)
(* Pattern and text are sequences of one-character strings.  The calls the *)
(* sources make into Python's re module (re.compile, Pattern.match,        *)
(* Pattern.search, Pattern.finditer) are modelled by a parser and a        *)
(* backtracking matcher for the subset of the syntax made of literals,     *)
(* ".", the escape "\w", the repeats * + ? with their lazy and possessive  *)
(* forms, alternation and capturing groups; group extensions "(?...)",     *)
(* the other escapes, "{m,n}", "[...]" and anchors are outside the         *)
(* modelled subset.                                                        *)
(***************************************************************************)
EXTENDS Integers, Sequences, FiniteSets, TLC

VARIABLES
    cache,      \* RegexCompiler._cache: cache key -> compiled pattern object
    nextId,     \* number of compiled pattern objects created so far
    compiles,   \* history: cache key -> successful re.compile calls since the last clear
    returned,   \* history: cache key -> ids of the objects compile_pattern returned since the last clear
    last,       \* the outcome of the most recent call
    pat,        \* the pattern argument of the calls of a matcher behaviour
    txt,        \* the text argument of the calls of a matcher behaviour
    validated,  \* history: the patterns that have compiled successfully so far
    pc,         \* concurrent callers: thread -> position inside compile_pattern
    loc,        \* concurrent callers: thread -> locals of its compile_pattern call
    components, \* RegexDocumenter.components
    memo,       \* the lru_cache of escape_special_chars: its entries, least recently
                \* used first, and the history of the arguments used so far
    scan        \* the locals of a running extract_pattern_components call

\* the state of the documenter and of RegexUtils
utilVars == <<components, memo, scan>>

vars == <<cache, nextId, compiles, returned, last, pat, txt, validated, pc, loc,
          components, memo, scan>>

----------------------------------------------------------------------------
(* Bounds of the model *)

MaxPatLen == 2
MaxTextLen == 3
MaxCompiles == 2
NumThreads == 2

----------------------------------------------------------------------------
(* Optional values: None is the empty sequence, Some(x) the one-element one *)

None == <<>>
Some(x) == <<x>>

RECURSIVE SeqsUpTo(_, _)
SeqsUpTo(S, n) ==
    IF n = 0 THEN {<<>>}
    ELSE LET shorter == SeqsUpTo(S, n - 1)
         IN  shorter \cup {Append(s, c) : s \in {x \in shorter : Len(x) = n - 1}, c \in S}

----------------------------------------------------------------------------
(* re.compile: the parser.  Offsets in error reports are 0-based, indices  *)
(* into the pattern 1-based.                                               *)

Lit(c) == [t |-> "lit", c |-> c]
\* ".": any character but a line break
AnyChar == [t |-> "any"]
\* "\w": a word character
Word == [t |-> "word"]
Cat(items) == [t |-> "cat", subs |-> items]
Alt(branches) == [t |-> "alt", subs |-> branches]
Grp(idx, n) == [t |-> "grp", idx |-> idx, sub |-> n]
\* max is None for an unbounded repeat (MAXREPEAT)
Rep(min, max, greedy, n) ==
    [t |-> "rep", min |-> min, max |-> max, greedy |-> greedy, sub |-> n]

\* a possessive repeat: the greedy repeat n, never re-entered on backtracking
Poss(n) == [t |-> "poss", sub |-> n]

REPEAT_CHARS == {"*", "+", "?"}
REPEATCODES == {"rep", "poss"}

ParseOk(node, i, g) ==
    [ok |-> TRUE, node |-> node, i |-> i, g |-> g, msg |-> "", pos |-> 0]
ParseErr(msg, pos) ==
    [ok |-> FALSE, node |-> Cat(<<>>), i |-> 0, g |-> 0, msg |-> msg, pos |-> pos]

RepMin(c) == IF c = "+" THEN 1 ELSE 0
RepMax(c) == IF c = "?" THEN Some(1) ELSE None

\* the repeat c applied to item, by the character that follows it
Repeated(c, item, lazy, possessive) ==
    IF lazy THEN Rep(RepMin(c), RepMax(c), FALSE, item)
    ELSE IF possessive THEN Poss(Rep(RepMin(c), RepMax(c), TRUE, item))
    ELSE Rep(RepMin(c), RepMax(c), TRUE, item)

\* the items acc with the last one replaced by item
ReplaceLast(acc, item) == Append(SubSeq(acc, 1, Len(acc) - 1), item)

RECURSIVE ParseSeq(_, _, _, _)
RECURSIVE ParseGroup(_, _, _, _, _)
RECURSIVE ParseSub(_, _, _, _)
RECURSIVE ParseBranch(_, _, _)

\* _parse: the items of one branch, from index i, with g groups opened so far
ParseSeq(p, i, g, acc) ==
    IF i > Len(p) \/ p[i] \in {"|", ")"}
    THEN ParseOk(IF Len(acc) = 1 THEN acc[1] ELSE Cat(acc), i, g)
    ELSE IF p[i] \in REPEAT_CHARS
    THEN IF acc = <<>>
         THEN ParseErr("nothing to repeat", i - 1)
         ELSE IF acc[Len(acc)].t \in REPEATCODES
         THEN ParseErr("multiple repeat", i - 1)
         ELSE IF i + 1 <= Len(p) /\ p[i + 1] \in {"?", "+"}
         THEN ParseSeq(p, i + 2, g,
                       ReplaceLast(acc, Repeated(p[i], acc[Len(acc)],
                                                 p[i + 1] = "?", p[i + 1] = "+")))
         ELSE ParseSeq(p, i + 1, g,
                       ReplaceLast(acc, Repeated(p[i], acc[Len(acc)], FALSE, FALSE)))
    ELSE IF p[i] = "("
    THEN ParseGroup(p, i, g, acc, ParseSub(p, i + 1, g + 1, <<>>))
    ELSE IF p[i] = "."
    THEN ParseSeq(p, i + 1, g, Append(acc, AnyChar))
    ELSE IF p[i] = "\\"
    THEN IF i + 1 > Len(p)
         THEN ParseErr("bad escape (end of pattern)", i - 1)
         ELSE ParseSeq(p, i + 2, g, Append(acc, Word))
    ELSE ParseSeq(p, i + 1, g, Append(acc, Lit(p[i])))

\* _parse after the body r of the group opened at index i, numbered g + 1
ParseGroup(p, i, g, acc, r) ==
    IF ~r.ok THEN r
    ELSE IF r.i > Len(p)
    THEN ParseErr("missing ), unterminated subpattern", i - 1)
    ELSE ParseSeq(p, r.i + 1, r.g, Append(acc, Grp(g + 1, r.node)))

\* _parse_sub: the branches of an alternation, from index i
ParseSub(p, i, g, branches) == ParseBranch(p, branches, ParseSeq(p, i, g, <<>>))

\* _parse_sub after the branch r
ParseBranch(p, branches, r) ==
    IF ~r.ok THEN r
    ELSE IF r.i <= Len(p) /\ p[r.i] = "|"
    THEN ParseSub(p, r.i + 1, r.g, Append(branches, r.node))
    ELSE ParseOk(IF branches = <<>> THEN r.node
                 ELSE Alt(Append(branches, r.node)), r.i, r.g)

\* sre_parse.parse after _parse_sub: what is left is an unopened ")"
ParseEnd(p, r) ==
    IF ~r.ok THEN r
    ELSE IF r.i <= Len(p)
    THEN ParseErr("unbalanced parenthesis", r.i - 1)
    ELSE r

\* sre_parse.parse: the whole pattern
Parse(p) == ParseEnd(p, ParseSub(p, 1, 0, <<>>))

\* the number of capturing groups of a parsed pattern
NumGroups(p) == Parse(p).g

----------------------------------------------------------------------------
(* The matcher: a backtracking search, given as the sequence of the match  *)
(* states it can end in, in the order backtracking tries them.  A match    *)
(* state is the text offset reached (0-based) and the group spans so far.  *)

MState(pos, caps) == [pos |-> pos, caps |-> caps]

NoCaps(ng) == [k \in 1..ng |-> None]

\* the group idx, opened at offset from, closes in each of the states inner
CloseGroup(idx, from, inner) ==
    [j \in 1..Len(inner) |->
        MState(inner[j].pos,
               [inner[j].caps EXCEPT ![idx] = Some(<<from, inner[j].pos>>)])]

\* a repeat that always tries its tail before one more iteration
RepOrderTailFirst(greedy, more, tail) == tail \o more

\* the order in which a repeat tries one more iteration and its tail
RepOrder(greedy, more, tail) == IF greedy THEN more \o tail ELSE tail \o more

\* the characters "\w" matches in a str pattern, among those of the texts
WordChars ==
    {"a", "b", "c", "d", "e", "f", "g", "h", "i", "j", "k", "l", "m",
     "n", "o", "p", "q", "r", "s", "t", "u", "v", "w", "x", "y", "z",
     "A", "B", "C", "D", "E", "F", "G", "H", "I", "J", "K", "L", "M",
     "N", "O", "P", "Q", "R", "S", "T", "U", "V", "W", "X", "Y", "Z",
     "0", "1", "2", "3", "4", "5", "6", "7", "8", "9", "_"}

\* whether the one-character item n accepts the character c
Accepts(n, c) ==
    IF n.t = "lit" THEN c = n.c
    ELSE IF n.t = "any" THEN c # "\n"
    ELSE c \in WordChars

\* a possessive repeat keeps the first of the states its greedy repeat ends in
FirstOnly(sts) == IF sts = <<>> THEN <<>> ELSE <<sts[1]>>

RECURSIVE M(_, _, _)
RECURSIVE MCat(_, _, _, _)
RECURSIVE MCatAll(_, _, _, _, _)
RECURSIVE MAlt(_, _, _, _)
RECURSIVE MRep(_, _, _, _, _)
RECURSIVE MRepAll(_, _, _, _, _, _)

\* the match states of node n from state st
M(n, text, st) ==
    IF n.t \in {"lit", "any", "word"}
    THEN IF st.pos < Len(text) /\ Accepts(n, text[st.pos + 1])
         THEN <<MState(st.pos + 1, st.caps)>>
         ELSE <<>>
    ELSE IF n.t = "poss" THEN FirstOnly(MRep(n.sub, text, st, 0, -1))
    ELSE IF n.t = "cat" THEN MCat(n.subs, 1, text, st)
    ELSE IF n.t = "alt" THEN MAlt(n.subs, 1, text, st)
    ELSE IF n.t = "grp" THEN CloseGroup(n.idx, st.pos, M(n.sub, text, st))
    ELSE MRep(n, text, st, 0, -1)

\* the items subs[k..] in sequence
MCat(subs, k, text, st) ==
    IF k > Len(subs) THEN <<st>>
    ELSE MCatAll(subs, k + 1, text, M(subs[k], text, st), 1)

\* the items subs[k..] continued from each of the states sts[j..], in order
MCatAll(subs, k, text, sts, j) ==
    IF j > Len(sts) THEN <<>>
    ELSE MCat(subs, k, text, sts[j]) \o MCatAll(subs, k, text, sts, j + 1)

\* the branches subs[k..], left to right
MAlt(subs, k, text, st) ==
    IF k > Len(subs) THEN <<>>
    ELSE M(subs[k], text, st) \o MAlt(subs, k + 1, text, st)

\* a repeat after count iterations, the latest of which started at offset lastp:
\* greedy tries one more iteration before the tail, lazy the tail first; an
\* iteration that consumed nothing is not followed by another one
MRep(n, text, st, count, lastp) ==
    RepOrder(n.greedy,
             IF count < n.min
                \/ ((n.max = None \/ count < n.max[1]) /\ st.pos # lastp)
             THEN MRepAll(n, text, M(n.sub, text, st), 1, count + 1, st.pos)
             ELSE <<>>,
             IF count >= n.min THEN <<st>> ELSE <<>>)

MRepAll(n, text, sts, j, count, lastp) ==
    IF j > Len(sts) THEN <<>>
    ELSE MRep(n, text, sts[j], count, lastp) \o MRepAll(n, text, sts, j + 1, count, lastp)

\* a match object: span, and the spans of the groups (None when not taken)
MatchObj(start, st) == [span |-> <<start, st.pos>>, caps |-> st.caps]

\* the match states of the whole pattern anchored at offset start; with
\* must_advance a match that ends where it starts is rejected
Advancing(all, start, must_advance) ==
    IF must_advance THEN SelectSeq(all, LAMBDA s : s.pos # start) ELSE all
MatchAt(ast, ng, text, start, must_advance) ==
    Advancing(M(ast, text, MState(start, NoCaps(ng))), start, must_advance)

\* sre_search: the first match scanning start offsets upward from start;
\* must_advance applies to the first offset only.  None when there is none.
RECURSIVE SearchFrom(_, _, _, _, _)
RECURSIVE SearchHere(_, _, _, _, _)
SearchFrom(ast, ng, text, start, must_advance) ==
    IF start > Len(text) THEN None
    ELSE SearchHere(ast, ng, text, start, MatchAt(ast, ng, text, start, must_advance))
SearchHere(ast, ng, text, start, here) ==
    IF here # <<>> THEN Some(MatchObj(start, here[1]))
    ELSE SearchFrom(ast, ng, text, start + 1, FALSE)

\* the first of the match states found at offset start, None when there is none
FirstOf(start, here) ==
    IF here # <<>> THEN Some(MatchObj(start, here[1])) ELSE None

\* Pattern.match(text): anchored at offset 0
re_match(ast, ng, text) == FirstOf(0, MatchAt(ast, ng, text, 0, FALSE))

\* Pattern.search(text)
re_search(ast, ng, text) == SearchFrom(ast, ng, text, 0, FALSE)

\* a scanner that resumes one past the start of the match
NextStartAfterStart(m) == m.span[1] + 1

\* where the scanner resumes after a match: state->start = state->ptr
NextStart(m) == m.span[2]

\* Pattern.finditer(text), from the scanner state (start, must_advance): the
\* next search starts where the match ended and, after an empty match, must
\* not return an empty match at that offset again
RECURSIVE re_finditer(_, _, _, _, _)
RECURSIVE ScanNext(_, _, _, _)
re_finditer(ast, ng, text, start, must_advance) ==
    ScanNext(ast, ng, text, SearchFrom(ast, ng, text, start, must_advance))
ScanNext(ast, ng, text, m) ==
    IF m = None THEN <<>>
    ELSE <<m[1]>> \o re_finditer(ast, ng, text, NextStart(m[1]),
                                  m[1].span[1] = m[1].span[2])

\* the text of a span
Slice(text, span) == SubSeq(text, span[1] + 1, span[2])

----------------------------------------------------------------------------
(* re.compile and the compiled pattern object *)

\* re.error: str(e) is the message followed by the offset
ErrorStr(msg, pos) == msg \o " at position " \o ToString(pos)

\* re.compile(pattern, flags): the parse result; the flags of the model act on
\* letter case and line breaks, which its texts do not hold
Compiled(r) ==
    [ok |-> r.ok, ast |-> r.node, groups |-> r.g, msg |-> r.msg, pos |-> r.pos]
re_compile(p, f) == Compiled(Parse(p))

\* the Pattern object a successful re.compile returns, with the identity id
PatternObj(id, p, f, r) ==
    [id |-> id, pattern |-> p, flags |-> f, ast |-> r.ast, groups |-> r.groups]

----------------------------------------------------------------------------
(* The outcome of a call, as its caller sees it *)

Outcome(op, p, f, text) ==
    [op |-> op, pattern |-> p, flags |-> f, text |-> text,
     arg |-> None,       \* raise_if_not_found, or the replacement template
     key |-> None,       \* the cache key used, if any
     hit |-> FALSE,      \* compile_pattern found the key in the cache
     prior |-> FALSE,    \* the pattern had compiled successfully before this call
     raised |-> "none",  \* the exception class raised, "none" on a return
     ctx |-> None,       \* the RegexContext of a RegexBaseError
     msg |-> "",         \* the message of the exception
     value |-> None,     \* the value returned
     steps |-> <<>>]     \* the library calls made, in order

Idle == Outcome("none", <<>>, 0, <<>>)

\* the lru_cache before the first call: no entry; fresh is the index of the
\* next argument not used before, seen0 whether argument 0 has been used
NoMemo == [entries |-> <<>>, fresh |-> 1, seen0 |-> FALSE]

\* no extract_pattern_components call is running
NoScan == [running |-> FALSE]

\* the exceptions that report an unusable pattern
ValidityErrors == {"RegexError", "InvalidRegexError", "EmptyPatternError"}

\* the steps that run a compiled pattern on a text
MatchingSteps == {"match", "search", "finditer", "sub"}

----------------------------------------------------------------------------
(* RegexCompiler *)

DigitChar(d) == <<"0", "1", "2", "3", "4", "5", "6", "7", "8", "9">>[d + 1]

\* str(n) of a non-negative int
RECURSIVE IntStr(_)
IntStr(n) ==
    IF n < 10 THEN <<DigitChar(n)>>
    ELSE IntStr(n \div 10) \o <<DigitChar(n % 10)>>

\* a key that leaves the flags out
KeyWithoutFlags(p, f) == p

\* cache_key = f"{pattern}_{flags}"
cache_key(p, f) == p \o <<"_">> \o IntStr(f)

\* a lookup that never finds the key
NeverCached(c, key) == TRUE

\* cache_key not in self._cache
CacheMiss(c, key) == key \notin DOMAIN c

\* a store that keeps an entry without a program when the compilation failed
StorePoisoned(c, key, id, p, f, r) ==
    IF key \in DOMAIN c
    THEN [c EXCEPT ![key] = PatternObj(id, p, f, r)]
    ELSE c @@ (key :> PatternObj(id, p, f, r))

\* self._cache[cache_key] = re.compile(pattern, flags): the right-hand side is
\* evaluated first, so a failed compilation stores nothing
CacheStore(c, key, id, p, f, r) ==
    IF ~r.ok THEN c
    ELSE IF key \in DOMAIN c
    THEN [c EXCEPT ![key] = PatternObj(id, p, f, r)]
    ELSE c @@ (key :> PatternObj(id, p, f, r))

\* a clear that leaves one entry behind
ClearAllButOne(c) ==
    IF c = <<>> THEN c
    ELSE LET k == CHOOSE x \in DOMAIN c : TRUE IN [y \in {k} |-> c[y]]

\* self._cache.clear()
Cleared(c) == [k \in {} |-> c[k]]

\* history of a key, 0 or {} when it has none yet
Count(h, key) == IF key \in DOMAIN h THEN h[key] ELSE 0
Ids(h, key) == IF key \in DOMAIN h THEN h[key] ELSE {}
Put(h, key, v) == IF key \in DOMAIN h THEN [h EXCEPT ![key] = v] ELSE h @@ (key :> v)

\* compile_pattern(pattern, flags) on the cache c with n objects created so
\* far: the cache and the object count after the call and its outcome
CompileOutcome(base, key, miss, r, c2) ==
    IF miss /\ key \notin DOMAIN c2
    THEN [base EXCEPT
             !.key = Some(key),
             !.raised = "RegexError",
             !.msg = "Invalid regex pattern: " \o ErrorStr(r.msg, r.pos),
             !.steps = <<"parse_error">>]
    ELSE [base EXCEPT
             !.key = Some(key),
             !.hit = ~miss,
             !.value = Some(c2[key]),
             !.steps = IF miss THEN <<"parse_ok">> ELSE <<"cache_hit">>]
CompileStep(c, n, p, f, key, miss, r, c2) ==
    [cache |-> c2,
     n |-> IF miss /\ r.ok THEN n + 1 ELSE n,
     compiled |-> miss /\ r.ok,
     out |-> CompileOutcome(Outcome("compile_pattern", p, f, <<>>), key, miss, r, c2)]
CompileMiss(c, n, p, f, key, r) ==
    CompileStep(c, n, p, f, key, TRUE, r, CacheStore(c, key, n + 1, p, f, r))
CompileLookup(c, n, p, f, key) ==
    IF CacheMiss(c, key)
    THEN CompileMiss(c, n, p, f, key, re_compile(p, f))
    ELSE CompileStep(c, n, p, f, key, FALSE, re_compile(p, f), c)
CompilePattern(c, n, p, f) == CompileLookup(c, n, p, f, cache_key(p, f))

----------------------------------------------------------------------------
(* The cache, called sequentially *)

\* the patterns and flags of the cache calls: valid and invalid patterns,
\* the empty one, and ones that hold the key's separator and digits
CachePatterns ==
    {<<>>, <<"a">>, <<"a", "_", "1">>, <<"a", "_">>, <<"(", "a">>, <<"a", "*", "*">>}

\* 0, IGNORECASE, MULTILINE, IGNORECASE | MULTILINE
Flags == {0, 2, 8, 10}

CacheInit ==
    /\ cache = <<>>
    /\ nextId = 0
    /\ compiles = <<>>
    /\ returned = <<>>
    /\ last = Idle
    /\ pat = <<>>
    /\ txt = <<>>
    /\ validated = {}
    /\ pc = <<>>
    /\ loc = <<>>
    /\ components = <<>>
    /\ memo = NoMemo
    /\ scan = NoScan

\* the history after a compile_pattern call with result res
Compiles2(res) ==
    IF res.compiled
    THEN Put(compiles, res.out.key[1], Count(compiles, res.out.key[1]) + 1)
    ELSE compiles
Returned2(res) ==
    IF res.out.raised = "none"
    THEN Put(returned, res.out.key[1],
             Ids(returned, res.out.key[1]) \cup {res.out.value[1].id})
    ELSE returned
Validated2(out) ==
    IF out.raised \notin ValidityErrors /\ out.steps # <<>>
    THEN validated \cup {out.pattern}
    ELSE validated

\* the state after a compile_pattern call with result res
Compiled2(res) ==
    /\ res.n <= MaxCompiles
    /\ cache' = res.cache
    /\ nextId' = res.n
    /\ compiles' = Compiles2(res)
    /\ returned' = Returned2(res)

\* the outcome out of a call on pattern p becomes the latest one
Called(p, out) ==
    /\ last' = [out EXCEPT !.prior = p \in validated]
    /\ validated' = Validated2(out)

compile_pattern(p, f) ==
    /\ Compiled2(CompilePattern(cache, nextId, p, f))
    /\ Called(p, CompilePattern(cache, nextId, p, f).out)
    /\ UNCHANGED <<pat, txt, pc, loc, utilVars>>

clear_cache ==
    /\ cache' = Cleared(cache)
    /\ compiles' = <<>>
    /\ returned' = <<>>
    /\ last' = Outcome("clear_cache", <<>>, 0, <<>>)
    /\ UNCHANGED <<nextId, pat, txt, validated, pc, loc, utilVars>>

CacheNext ==
    \/ \E p \in CachePatterns, f \in Flags : compile_pattern(p, f)
    \/ clear_cache

Spec == CacheInit /\ [][CacheNext]_vars

----------------------------------------------------------------------------
(* exceptions.py: RegexContext, the error classes, validate_regex and      *)
(* find_pattern                                                            *)

RegexContext(p, input_string, position, message) ==
    [pattern |-> p, input_string |-> input_string, position |-> position,
     message |-> message]

\* the string of a sequence of characters
RECURSIVE Str(_)
Str(s) == IF s = <<>> THEN "" ELSE s[1] \o Str(Tail(s))

\* RegexBaseError._format_message
FormatMessage(ctx) ==
    "Error with pattern '" \o Str(ctx.pattern) \o "'"
    \o (IF ctx.message # None /\ ctx.message[1] # ""
        THEN ": " \o ctx.message[1] ELSE "")
    \o (IF ctx.input_string # None
        THEN "\nInput string: '" \o Str(ctx.input_string[1]) \o "'" ELSE "")
    \o (IF ctx.position # None
        THEN "\nPosition: " \o ToString(ctx.position[1]) ELSE "")

\* raise cls(ctx)
Raise(out, cls, ctx) ==
    [out EXCEPT !.raised = cls, !.ctx = Some(ctx), !.msg = FormatMessage(ctx),
                !.value = None]

\* the context validate_regex gives an InvalidRegexError for the re.error r
InvalidContext(p, r) == RegexContext(p, None, None, Some(ErrorStr(r.msg, r.pos)))

\* validate_regex, lines 59-65: re.compile(pattern), its error wrapped
ValidateCompiled(out, p, r) ==
    IF r.ok
    THEN [out EXCEPT !.value = Some(PatternObj(0, p, 0, r)), !.steps = <<"parse_ok">>]
    ELSE [Raise(out, "InvalidRegexError", InvalidContext(p, r))
             EXCEPT !.steps = <<"parse_error">>]

\* validate_regex(pattern), as the call that ends in outcome out
ValidateRegex(out, p) ==
    IF p = <<>>
    THEN Raise(out, "EmptyPatternError",
               RegexContext(p, None, None, Some("Empty pattern provided")))
    ELSE ValidateCompiled(out, p, re_compile(p, 0))

\* a find_pattern that raises whenever nothing is found
RaisesOnEveryMiss(m, raise_if_not_found) == m = None

\* match is None and raise_if_not_found
RaisesNotFound(m, raise_if_not_found) == m = None /\ raise_if_not_found

\* find_pattern, lines 83-93, after validate_regex returned in outcome v
FindSearched(v, p, text, raise_if_not_found, m) ==
    IF RaisesNotFound(m, raise_if_not_found)
    THEN [Raise(v, "PatternNotFoundError",
                RegexContext(p, Some(text), Some(0),
                             Some("Pattern not found in input string")))
             EXCEPT !.steps = <<"parse_ok", "search">>]
    ELSE [v EXCEPT !.value = IF m # None THEN Some(Slice(text, m[1].span)) ELSE None,
                   !.steps = <<"parse_ok", "search">>]

\* find_pattern, line 82: an error of validate_regex ends the call
FindValidated(v, p, text, raise_if_not_found) ==
    IF v.raised # "none" THEN v
    ELSE FindSearched(v, p, text, raise_if_not_found,
                      re_search(v.value[1].ast, v.value[1].groups, text))

\* find_pattern(pattern, text, raise_if_not_found)
FindPattern(p, text, raise_if_not_found) ==
    FindValidated(
        ValidateRegex([Outcome("find_pattern", p, 0, text)
                          EXCEPT !.arg = Some(raise_if_not_found)], p),
        p, text, raise_if_not_found)

----------------------------------------------------------------------------
(* RegexMatcher: match, find_all and replace on the compiler's cache *)

\* match.groups(): the texts of groups 1..n, None for a group not taken
GroupsOf(text, caps) ==
    [k \in 1..Len(caps) |->
        IF caps[k] = None THEN None ELSE Some(Slice(text, caps[k][1]))]

\* the MatchResult built from a match object, or the one for no match
MatchResult(text, m) ==
    IF m # None
    THEN [matched |-> TRUE, value |-> Slice(text, m[1].span),
          groups |-> GroupsOf(text, m[1].caps), span |-> m[1].span,
          named_groups |-> Some(<<>>)]
    ELSE [matched |-> FALSE, value |-> <<>>, groups |-> <<>>, span |-> <<>>,
          named_groups |-> None]

MatchResults(text, ms) == [j \in 1..Len(ms) |-> MatchResult(text, Some(ms[j]))]

\* the outcome of compile_pattern as the first step of the method op
Entered(out, op, text) == [out EXCEPT !.op = op, !.text = text]

\* match, lines 82-93: out is the outcome of its compile_pattern call
MatchOutcome(out, text) ==
    IF out.raised # "none" THEN out
    ELSE [out EXCEPT
             !.value = Some(MatchResult(text,
                            re_match(out.value[1].ast, out.value[1].groups, text))),
             !.steps = Append(out.steps, "match")]

\* find_all, lines 97-109
FindAllOutcome(out, text) ==
    IF out.raised # "none" THEN out
    ELSE [out EXCEPT
             !.value = Some(MatchResults(text,
                            re_finditer(out.value[1].ast, out.value[1].groups,
                                        text, 0, FALSE))),
             !.steps = Append(out.steps, "finditer")]

DigitVal(d) == CHOOSE k \in 0..9 : DigitChar(k) = d
GroupDigits == {"1", "2", "3", "4", "5", "6", "7", "8", "9"}

\* parse_template: the error of a replacement template for a pattern with ng
\* groups, None when it has none.  The templates of the model are literal
\* characters and references \1..\9.
RECURSIVE TemplateError(_, _, _)
TemplateError(tpl, i, ng) ==
    IF i > Len(tpl) THEN None
    ELSE IF tpl[i] # "\\" THEN TemplateError(tpl, i + 1, ng)
    ELSE IF i = Len(tpl) THEN Some("bad escape (end of pattern) at position " \o ToString(i - 1))
    ELSE IF tpl[i + 1] \in GroupDigits /\ DigitVal(tpl[i + 1]) > ng
    THEN Some("invalid group reference " \o tpl[i + 1] \o " at position " \o ToString(i))
    ELSE TemplateError(tpl, i + 2, ng)

\* a substitution that takes the text of group 1 for every reference
GroupOneText(text, mo, k) == IF mo.caps[1] = None THEN <<>> ELSE Slice(text, mo.caps[1][1])

\* the text of group k of a match, empty when the group was not taken
GroupText(text, mo, k) == IF mo.caps[k] = None THEN <<>> ELSE Slice(text, mo.caps[k][1])

\* the template with its references replaced by the groups of the match mo
RECURSIVE Expand(_, _, _, _)
Expand(tpl, i, text, mo) ==
    IF i > Len(tpl) THEN <<>>
    ELSE IF tpl[i] = "\\" /\ i < Len(tpl) /\ tpl[i + 1] \in GroupDigits
    THEN GroupText(text, mo, DigitVal(tpl[i + 1])) \o Expand(tpl, i + 2, text, mo)
    ELSE <<tpl[i]>> \o Expand(tpl, i + 1, text, mo)

\* the text with the span of each of the matches ms[j..] replaced, from offset prev
RECURSIVE SubJoin(_, _, _, _, _)
SubJoin(text, tpl, ms, j, prev) ==
    IF j > Len(ms) THEN Slice(text, <<prev, Len(text)>>)
    ELSE Slice(text, <<prev, ms[j].span[1]>>) \o Expand(tpl, 1, text, ms[j])
         \o SubJoin(text, tpl, ms, j + 1, ms[j].span[2])

\* Pattern.sub(replacement, text)
re_sub(ast, ng, tpl, text) == SubJoin(text, tpl, re_finditer(ast, ng, text, 0, FALSE), 1, 0)

\* replace, line 114, after compile_pattern returned; terr is the template's error
Substituted(out, text, tpl, terr) ==
    IF terr # None
    THEN [out EXCEPT !.raised = "re.error", !.msg = terr[1], !.value = None,
                     !.steps = Append(out.steps, "template_error")]
    ELSE [out EXCEPT
             !.value = Some(re_sub(out.value[1].ast, out.value[1].groups, tpl, text)),
             !.steps = Append(out.steps, "sub")]

\* replace, lines 113-114
ReplaceOutcome(out, text, tpl) ==
    IF out.raised # "none" THEN out
    ELSE Substituted(out, text, tpl, TemplateError(tpl, 1, out.value[1].groups))

----------------------------------------------------------------------------
(* One RegexMatcher and the functions of exceptions.py, called one after   *)
(* the other on the pattern and the text the behaviour starts with         *)

PatChars == {"a", "*", "?", "|", "(", ")"}
TextChars == {"a", "b"}

\* patterns longer than the bound: the spec's "(unclosed", and repeats of groups
ExtraPatterns ==
    {<<"(", "u", "n", "c", "l", "o", "s", "e", "d">>,
     <<"(", "a", "|", ")", "*">>,
     <<"(", "a", "*", ")", "*">>,
     <<"(", "a", ")", "|", "b">>,
     <<"a", "b", "*", "?">>,
     <<"a", "*", "?">>,
     <<"a", "|", "b">>,
     <<"(", "a", ")">>,
     <<"a", "*", "*">>,
     <<"a", ".", "*", "b">>,
     <<"a", ".", "*", "?", "b">>,
     <<"(", "a", ")", "?", "b">>,
     <<"(", "a", "|", "a", "b", ")", "*">>,
     <<"(", "\\", "w", "+", ")", "@", "(", "\\", "w", "+", ")">>}

\* a group extension "(?" is outside the modelled syntax
HasExtension(p) == \E i \in 1..(Len(p) - 1) : p[i] = "(" /\ p[i + 1] = "?"

Patterns == {p \in SeqsUpTo(PatChars, MaxPatLen) : ~HasExtension(p)} \cup ExtraPatterns
\* texts longer than the bound: those of the spec's examples
ExtraTexts ==
    {<<"a", "x", "b", "x", "b">>,
     <<"w", "r", "i", "t", "e", " ", "t", "o", " ", "a", "@", "b">>}

Texts == SeqsUpTo(TextChars, MaxTextLen) \cup ExtraTexts
Templates == {<<"-">>, <<"\\", "1">>, <<"\\", "2", "@", "\\", "1">>}

MatchInit ==
    /\ pat \in Patterns
    /\ txt \in Texts
    /\ cache = <<>>
    /\ nextId = 0
    /\ compiles = <<>>
    /\ returned = <<>>
    /\ last = Idle
    /\ validated = {}
    /\ pc = <<>>
    /\ loc = <<>>
    /\ components = <<>>
    /\ memo = NoMemo
    /\ scan = NoScan

validate_regex ==
    /\ Called(pat, ValidateRegex(Outcome("validate_regex", pat, 0, <<>>), pat))
    /\ UNCHANGED <<cache, nextId, compiles, returned, pat, txt, pc, loc, utilVars>>

find_pattern(raise_if_not_found) ==
    /\ Called(pat, FindPattern(pat, txt, raise_if_not_found))
    /\ UNCHANGED <<cache, nextId, compiles, returned, pat, txt, pc, loc, utilVars>>

match ==
    /\ Compiled2(CompilePattern(cache, nextId, pat, 0))
    /\ Called(pat, MatchOutcome(
                       Entered(CompilePattern(cache, nextId, pat, 0).out, "match", txt),
                       txt))
    /\ UNCHANGED <<pat, txt, pc, loc, utilVars>>

find_all ==
    /\ Compiled2(CompilePattern(cache, nextId, pat, 0))
    /\ Called(pat, FindAllOutcome(
                       Entered(CompilePattern(cache, nextId, pat, 0).out, "find_all", txt),
                       txt))
    /\ UNCHANGED <<pat, txt, pc, loc, utilVars>>

replace(tpl) ==
    /\ Compiled2(CompilePattern(cache, nextId, pat, 0))
    /\ Called(pat, ReplaceOutcome(
                       [Entered(CompilePattern(cache, nextId, pat, 0).out, "replace", txt)
                           EXCEPT !.arg = Some(tpl)],
                       txt, tpl))
    /\ UNCHANGED <<pat, txt, pc, loc, utilVars>>

MatchNext ==
    \/ validate_regex
    \/ \E b \in BOOLEAN : find_pattern(b)
    \/ match
    \/ find_all
    \/ \E tpl \in Templates : replace(tpl)

SpecMatch == MatchInit /\ [][MatchNext]_vars

----------------------------------------------------------------------------
(* The cache, called by concurrent threads: compile_pattern is the steps   *)
(* between which another thread can run                                    *)

Threads == 1..NumThreads

ConcPatterns == {<<"a">>, <<"(", "a">>}
ConcFlags == {0, 2}

ConcInit ==
    /\ cache = <<>>
    /\ nextId = 0
    /\ compiles = <<>>
    /\ returned = <<>>
    /\ last = Idle
    /\ pat = <<>>
    /\ txt = <<>>
    /\ validated = {}
    /\ pc = [t \in Threads |-> "idle"]
    /\ loc = [t \in Threads |->
                [pattern |-> <<>>, flags |-> 0, key |-> <<>>, id |-> 0, ret |-> None]]
    /\ components = <<>>
    /\ memo = NoMemo
    /\ scan = NoScan

\* line 62: the call starts and builds its key
T_call(t, p, f) ==
    /\ pc[t] \in {"idle", "done", "raised"}
    /\ pc' = [pc EXCEPT ![t] = "check"]
    /\ loc' = [loc EXCEPT ![t] = [pattern |-> p, flags |-> f, key |-> cache_key(p, f),
                                  id |-> 0, ret |-> None]]
    /\ UNCHANGED <<cache, nextId, compiles, returned, last, pat, txt, validated, utilVars>>

\* line 63: cache_key not in self._cache
T_check(t) ==
    /\ pc[t] = "check"
    /\ pc' = [pc EXCEPT ![t] = IF CacheMiss(cache, loc[t].key) THEN "compile" ELSE "return"]
    /\ UNCHANGED <<cache, nextId, compiles, returned, last, pat, txt, validated, loc, utilVars>>

\* line 65, right-hand side: re.compile(pattern, flags), or lines 66-67
T_compile(t) ==
    /\ pc[t] = "compile"
    /\ IF re_compile(loc[t].pattern, loc[t].flags).ok
       THEN /\ nextId < MaxCompiles
            /\ nextId' = nextId + 1
            /\ loc' = [loc EXCEPT ![t].id = nextId + 1]
            /\ compiles' = Put(compiles, loc[t].key, Count(compiles, loc[t].key) + 1)
            /\ pc' = [pc EXCEPT ![t] = "store"]
       ELSE /\ pc' = [pc EXCEPT ![t] = "raised"]
            /\ UNCHANGED <<nextId, loc, compiles>>
    /\ UNCHANGED <<cache, returned, last, pat, txt, validated, utilVars>>

\* line 65, the assignment: self._cache[cache_key] = <the compiled object>
T_store(t) ==
    /\ pc[t] = "store"
    /\ cache' = CacheStore(cache, loc[t].key, loc[t].id, loc[t].pattern, loc[t].flags,
                           re_compile(loc[t].pattern, loc[t].flags))
    /\ pc' = [pc EXCEPT ![t] = "return"]
    /\ UNCHANGED <<nextId, compiles, returned, last, pat, txt, validated, loc, utilVars>>

\* line 68: return self._cache[cache_key]
T_return(t) ==
    /\ pc[t] = "return"
    /\ loc' = [loc EXCEPT ![t].ret = Some(cache[loc[t].key])]
    /\ returned' = Put(returned, loc[t].key,
                       Ids(returned, loc[t].key) \cup {cache[loc[t].key].id})
    /\ pc' = [pc EXCEPT ![t] = "done"]
    /\ UNCHANGED <<cache, nextId, compiles, last, pat, txt, validated, utilVars>>

ConcNext ==
    \E t \in Threads :
        \/ \E p \in ConcPatterns, f \in ConcFlags : T_call(t, p, f)
        \/ T_check(t)
        \/ T_compile(t)
        \/ T_store(t)
        \/ T_return(t)

SpecConc == ConcInit /\ [][ConcNext]_vars

----------------------------------------------------------------------------
(* Properties of the cache *)

\* C1: with no clear_cache in between, every compile_pattern call for a key
\* after the first returns the very object the first one returned, and the
\* key is compiled once.
C1_RepeatReturnsSameObject ==
    /\ \A k \in DOMAIN returned : Cardinality(returned[k]) <= 1
    /\ \A k \in DOMAIN compiles : compiles[k] <= 1
    /\ (last.op = "compile_pattern" /\ last.hit)
           => /\ last.raised = "none"
              /\ last.value = Some(cache[last.key[1]])
              /\ returned[last.key[1]] = {last.value[1].id}

\* a second call for a key was served from the cache
C1_Witness ==
    /\ last.op = "compile_pattern"
    /\ last.hit
    /\ compiles[last.key[1]] = 1
    /\ returned[last.key[1]] = {last.value[1].id}

\* the pattern of a compile_pattern call compiles
Compiles(p, f) == re_compile(p, f).ok

\* C2: a compile_pattern call whose pattern fails to compile raises to its
\* caller and leaves the cache as it was; no entry is ever stored for such a
\* pattern, so a later call with it fails again.
C2_FailureNotCached ==
    /\ [](\A k \in DOMAIN cache : Compiles(cache[k].pattern, cache[k].flags))
    /\ []((last.op = "compile_pattern" /\ ~Compiles(last.pattern, last.flags))
            => last.raised = "RegexError" /\ last.value = None
               /\ last.key[1] \notin DOMAIN cache)
    /\ [][(last'.op = "compile_pattern" /\ last'.raised # "none") => cache' = cache]_vars

\* a call failed while the cache held an entry, and the pattern had failed before
C2_Witness ==
    /\ last.op = "compile_pattern"
    /\ last.raised = "RegexError"
    /\ cache # <<>>
    /\ last.key[1] \notin DOMAIN cache

\* C3: concurrent compile_pattern calls for a key that is not cached compile
\* it at most once, and all of them return the same object.
C3_AtMostOneCompilation ==
    /\ \A k \in DOMAIN compiles : compiles[k] <= 1
    /\ \A k \in DOMAIN returned : Cardinality(returned[k]) <= 1

\* C4: requests share a cache entry exactly when they have the same pattern
\* text and the same flags: the object a call returns was compiled from the
\* pattern and the flags of that call, every entry sits under the key of its
\* own pattern and flags, and no two (pattern, flags) pairs have the same key.
C4_KeyedByPatternAndFlags ==
    /\ (last.op = "compile_pattern" /\ last.raised = "none")
           => /\ last.value[1].pattern = last.pattern
              /\ last.value[1].flags = last.flags
    /\ \A k \in DOMAIN cache : cache_key(cache[k].pattern, cache[k].flags) = k
    /\ \A p \in CachePatterns, q \in CachePatterns, f \in Flags, g \in Flags :
           cache_key(p, f) = cache_key(q, g) => p = q /\ f = g

\* the cache holds the same pattern text under two flags, as two entries, and
\* a pattern that ends like a key does
C4_Witness ==
    /\ \E k1 \in DOMAIN cache, k2 \in DOMAIN cache :
           k1 # k2 /\ cache[k1].pattern = cache[k2].pattern
    /\ last.op = "compile_pattern"
    /\ last.raised = "none"

\* C5: a compile_pattern call leaves every existing entry as it is; entries
\* go away only in clear_cache, which removes them all; the first call for a
\* key after a clear compiles again.
C5_EntriesStableUntilClear ==
    [][/\ \A k \in DOMAIN cache \cap DOMAIN cache' : cache'[k] = cache[k]
       /\ \/ DOMAIN cache \subseteq DOMAIN cache'
          \/ last'.op = "clear_cache"
       /\ last'.op = "clear_cache" => cache' = <<>>
       /\ (last.op = "clear_cache" /\ last'.op = "compile_pattern"
           /\ last'.raised = "none")
              => ~last'.hit /\ nextId' = nextId + 1 /\ last'.steps = <<"parse_ok">>
      ]_vars

\* a key was compiled, cleared, and compiled again into a new object
C5_Witness ==
    /\ last.op = "compile_pattern"
    /\ ~last.hit
    /\ last.raised = "none"
    /\ last.prior
    /\ nextId = 2
    /\ DOMAIN cache = {last.key[1]}

----------------------------------------------------------------------------
(* Properties of find_pattern, validate_regex and RegexMatcher *)

\* the calls that take a pattern and run it on a text
MatchingOps == {"find_pattern", "match", "find_all", "replace"}

\* what Pattern.search finds for the arguments of the latest call
Searched(r, text) == re_search(r.ast, r.groups, text)

\* C6 for a find_pattern call whose pattern compiled, m being what search finds
C6_Cases(m) ==
    /\ (m = None /\ last.arg = Some(TRUE))
           => /\ last.raised = "PatternNotFoundError"
              /\ last.ctx[1].pattern = last.pattern
              /\ last.ctx[1].input_string = Some(last.text)
              /\ last.value = None
    /\ (m = None /\ last.arg = Some(FALSE))
           => last.raised = "none" /\ last.value = None
    /\ m # None
           => last.raised = "none" /\ last.value = Some(Slice(last.text, m[1].span))

\* C6: for a pattern that validates, find_pattern on a text with no match
\* raises PatternNotFoundError carrying the pattern and the text when
\* raise_if_not_found is true and returns None when it is false; when there
\* is a match it returns the text of the first match either way.
C6_FindPatternNotFound ==
    (last.op = "find_pattern" /\ last.pattern # <<>> /\ Compiles(last.pattern, 0))
        => C6_Cases(Searched(re_compile(last.pattern, 0), last.text))

\* find_pattern raised for a text that holds no match
C6_Witness ==
    /\ last.op = "find_pattern"
    /\ last.raised = "PatternNotFoundError"
    /\ last.text # <<>>
    /\ last.ctx[1].input_string = Some(last.text)

\* C7: every call that takes a pattern rejects the empty pattern with
\* EmptyPatternError, before it compiles or matches anything.
C7_EmptyPatternRejected ==
    (last.op \in MatchingOps \cup {"validate_regex", "compile_pattern"}
     /\ last.pattern = <<>>)
        => last.raised = "EmptyPatternError" /\ last.steps = <<>>

Unclosed == <<"(", "u", "n", "c", "l", "o", "s", "e", "d">>

\* C8: an InvalidRegexError carries the pattern, a reason and the offset of
\* the offending character in its context; for "(unclosed" the offset is at
\* or after the "(".
C8_InvalidRegexCarriesOffset ==
    last.raised = "InvalidRegexError"
        => /\ last.ctx # None
           /\ last.ctx[1].pattern = last.pattern
           /\ last.ctx[1].message # None
           /\ last.ctx[1].position # None
           /\ last.pattern = Unclosed => last.ctx[1].position[1] >= 0

\* C9: an error about the pattern is raised by the validation or compilation
\* step, before any step that runs the pattern on a text; a matching step
\* runs only after that step succeeded; and once a pattern has compiled, no
\* later matching call with it raises an error about the pattern.
C9_ValidityErrorsBeforeMatching ==
    /\ last.raised \in ValidityErrors
           => \A i \in DOMAIN last.steps : last.steps[i] \notin MatchingSteps
    /\ \A i \in DOMAIN last.steps :
           last.steps[i] \in MatchingSteps
               => /\ i = 2
                  /\ last.steps[1] \in {"parse_ok", "cache_hit"}
                  /\ last.pattern # <<>>
    /\ (last.prior /\ last.op \in MatchingOps) => last.raised \notin ValidityErrors

\* the spans of the matches find_all returned
Spans(ms) == [j \in DOMAIN ms |-> ms[j].span]

\* the spans are inside the text, in order, and do not overlap
Ordered(sp, text) ==
    /\ \A j \in DOMAIN sp : 0 <= sp[j][1] /\ sp[j][1] <= sp[j][2] /\ sp[j][2] <= Len(text)
    /\ \A j \in 1..(Len(sp) - 1) : sp[j + 1][1] >= sp[j][2]

\* C10 as claimed: find_all returns a finite list of matches in increasing
\* order that do not overlap, and the match after a zero-width match starts
\* at least one unit past it.
C10_NextSearchOnePast ==
    (last.op = "find_all" /\ last.raised = "none")
        => /\ Ordered(Spans(last.value[1]), last.text)
           /\ \A j \in 1..(Len(last.value[1]) - 1) :
                  last.value[1][j].span[1] = last.value[1][j].span[2]
                      => last.value[1][j + 1].span[1] >= last.value[1][j].span[2] + 1

\* C10 for the spans sp of a find_all call
C10_Spans(sp, text) ==
    /\ Ordered(sp, text)
    /\ Len(sp) <= 2 * Len(text) + 1
    /\ \A j \in 1..(Len(sp) - 1) :
           sp[j][1] = sp[j][2] => sp[j + 1][2] > sp[j][2]
    /\ \A j \in 1..(Len(sp) - 1) :
           sp[j + 1][1] > sp[j][1] \/ sp[j + 1][2] > sp[j][2]

\* C10, amended: find_all returns a finite list of matches (at most two per
\* offset) whose spans are in order and do not overlap; the match after a
\* zero-width match ends strictly after it, but may start where it was; a*
\* on "aaa" gives the match "aaa" and the empty match at the end.
C10_FindAllProgress ==
    (last.op = "find_all" /\ last.raised = "none")
        => /\ C10_Spans(Spans(last.value[1]), last.text)
           /\ (last.pattern = <<"a", "*">> /\ last.text = <<"a", "a", "a">>)
                  => Spans(last.value[1]) = << <<0, 3>>, <<3, 3>> >>

\* find_all returned a zero-width match followed by a match that starts at
\* the same offset
C10_Witness ==
    /\ last.op = "find_all"
    /\ last.raised = "none"
    /\ \E j \in 1..(Len(last.value[1]) - 1) :
           /\ last.value[1][j].span[1] = last.value[1][j].span[2]
           /\ last.value[1][j + 1].span[1] = last.value[1][j].span[1]
           /\ last.value[1][j + 1].span[2] = last.value[1][j].span[2] + 1

----------------------------------------------------------------------------
(* Properties of the MatchResult fields *)

\* the results a match or find_all call returned that report a match
MatchedResults(out) ==
    IF out.op = "match"
    THEN IF out.value[1].matched THEN <<out.value[1]>> ELSE <<>>
    ELSE out.value[1]

\* groups holds the whole match at index 0 and group i at index i, for a
\* pattern with ng groups (Python's index i is the sequence's i + 1)
WholeMatchFirst(res, ng) ==
    /\ Len(res.groups) = ng + 1
    /\ res.groups[1] = Some(res.value)

\* C11: in every MatchResult with matched=True that match or find_all
\* returns, groups has the whole match (equal to value) at index 0 and the
\* text of capturing group i at index i, so it is one longer than the
\* number of capturing groups.
C11_GroupsIndexZeroWholeMatch ==
    (last.op \in {"match", "find_all"} /\ last.raised = "none" /\ last.pattern # <<>>)
        => \A j \in DOMAIN MatchedResults(last) :
               WholeMatchFirst(MatchedResults(last)[j], NumGroups(last.pattern))

----------------------------------------------------------------------------
(* Greedy and lazy repeats against a reference matcher *)

\* The reference matcher: the offsets at which node n can end when it starts
\* at offset pos, in the order tried.  A repeat is tried by its number of
\* iterations: greedy from the highest count down, lazy from the lowest up.
RECURSIVE Ref(_, _, _)
RECURSIVE RefCat(_, _, _, _)
RECURSIVE RefCatAll(_, _, _, _, _)
RECURSIVE RefAlt(_, _, _, _)
RECURSIVE RefExact(_, _, _, _)
RECURSIVE RefExactAll(_, _, _, _, _)
RECURSIVE RefCounts(_, _, _, _, _, _)

\* the highest count of a repeat worth trying from offset pos
RefHigh(n, text, pos) ==
    IF n.max # None THEN n.max[1]
    ELSE IF n.min > Len(text) - pos THEN n.min ELSE Len(text) - pos

Ref(n, text, pos) ==
    IF n.t \in {"lit", "any", "word"}
    THEN IF pos < Len(text) /\ Accepts(n, text[pos + 1]) THEN <<pos + 1>> ELSE <<>>
    ELSE IF n.t = "cat" THEN RefCat(n.subs, 1, text, pos)
    ELSE IF n.t = "alt" THEN RefAlt(n.subs, 1, text, pos)
    ELSE IF n.t = "grp" THEN Ref(n.sub, text, pos)
    ELSE IF n.t = "poss" THEN FirstOnly(Ref(n.sub, text, pos))
    ELSE IF n.greedy
    THEN RefCounts(n, text, pos, RefHigh(n, text, pos), n.min, -1)
    ELSE RefCounts(n, text, pos, n.min, RefHigh(n, text, pos), 1)

RefCat(subs, k, text, pos) ==
    IF k > Len(subs) THEN <<pos>>
    ELSE RefCatAll(subs, k + 1, text, Ref(subs[k], text, pos), 1)

RefCatAll(subs, k, text, ends, j) ==
    IF j > Len(ends) THEN <<>>
    ELSE RefCat(subs, k, text, ends[j]) \o RefCatAll(subs, k, text, ends, j + 1)

RefAlt(subs, k, text, pos) ==
    IF k > Len(subs) THEN <<>>
    ELSE Ref(subs[k], text, pos) \o RefAlt(subs, k + 1, text, pos)

\* the ends of exactly count iterations of the repeat n from offset pos
RefExact(n, text, pos, count) ==
    IF count = 0 THEN <<pos>>
    ELSE RefExactAll(n, text, Ref(n.sub, text, pos), 1, count - 1)

RefExactAll(n, text, ends, j, count) ==
    IF j > Len(ends) THEN <<>>
    ELSE RefExact(n, text, ends[j], count) \o RefExactAll(n, text, ends, j + 1, count)

\* the counts from..to of the repeat n, in steps of dir
RefCounts(n, text, pos, from, to, dir) ==
    IF (dir = 1 /\ from > to) \/ (dir = -1 /\ from < to) THEN <<>>
    ELSE RefExact(n, text, pos, from) \o RefCounts(n, text, pos, from + dir, to, dir)

\* the result of match agrees with the ends the reference matcher finds
AgreesWithRef(res, ends) ==
    /\ res.matched <=> ends # <<>>
    /\ res.matched => res.span = <<0, ends[1]>>

\* the result of match is one of the ends the reference matcher finds
AmongRef(res, ends) ==
    /\ res.matched <=> ends # <<>>
    /\ res.matched => res.span[1] = 0 /\ \E j \in DOMAIN ends : res.span[2] = ends[j]

\* an item that matches in one way only: a character item, or a group of one
RECURSIVE OneWay(_)
OneWay(n) ==
    \/ n.t \in {"lit", "any", "word"}
    \/ n.t = "grp" /\ OneWay(n.sub)

\* every repeat of the node n repeats an item that matches in one way only
RECURSIVE SimpleRepeats(_)
SimpleRepeats(n) ==
    IF n.t \in {"lit", "any", "word"} THEN TRUE
    ELSE IF n.t \in {"cat", "alt"} THEN \A k \in DOMAIN n.subs : SimpleRepeats(n.subs[k])
    ELSE IF n.t \in {"grp", "poss"} THEN SimpleRepeats(n.sub)
    ELSE OneWay(n.sub)

GreedyExample == <<"a", ".", "*", "b">>
LazyExample == <<"a", ".", "*", "?", "b">>
ExampleText == <<"a", "x", "b", "x", "b">>

\* C12 as claimed: anchored at the start of the text, match returns what the
\* reference matcher returns, which tries the counts of a greedy repeat from
\* high to low and those of a lazy repeat from low to high, so that a greedy
\* repeat gets the longest expansion that lets the pattern succeed and a
\* lazy repeat the shortest.
C12_MatchEqualsCountOrder ==
    (last.op = "match" /\ last.raised = "none" /\ last.pattern # <<>>)
        => AgreesWithRef(last.value[1], Ref(Parse(last.pattern).node, last.text, 0))

\* C12, amended: match succeeds exactly when the reference matcher does and
\* ends at one of its ends; when every repeat of the pattern repeats a
\* single character item (or a group of one) it ends at the first of them,
\* the longest expansion for a greedy and the shortest for a lazy repeat;
\* a.*b on "axbxb" matches "axbxb" and a.*?b matches "axb".
C12_GreedyLongestLazyShortest ==
    (last.op = "match" /\ last.raised = "none" /\ last.pattern # <<>>)
        => /\ AmongRef(last.value[1], Ref(Parse(last.pattern).node, last.text, 0))
           /\ SimpleRepeats(Parse(last.pattern).node)
                  => AgreesWithRef(last.value[1],
                                   Ref(Parse(last.pattern).node, last.text, 0))
           /\ (last.pattern = GreedyExample /\ last.text = ExampleText)
                  => last.value[1].value = ExampleText
           /\ (last.pattern = LazyExample /\ last.text = ExampleText)
                  => last.value[1].value = <<"a", "x", "b">>

\* match ran the lazy example and returned the shorter of the two matches
C12_Witness ==
    /\ last.op = "match"
    /\ last.pattern = LazyExample
    /\ last.text = ExampleText
    /\ last.value[1].matched
    /\ last.value[1].span = <<0, 3>>

----------------------------------------------------------------------------
(* replace against a position by position account of the text *)

\* the template read piece by piece: a reference \k gives the text of group
\* k of the match mo, nothing when the group took no part; any other
\* character gives itself
RECURSIVE Filled(_, _, _, _)
Filled(tpl, i, text, mo) ==
    IF i > Len(tpl) THEN <<>>
    ELSE IF tpl[i] = "\\" /\ i < Len(tpl)
    THEN (IF mo.caps[DigitVal(tpl[i + 1])] = None THEN <<>>
          ELSE SubSeq(text, mo.caps[DigitVal(tpl[i + 1])][1][1] + 1,
                      mo.caps[DigitVal(tpl[i + 1])][1][2]))
         \o Filled(tpl, i + 2, text, mo)
    ELSE <<tpl[i]>> \o Filled(tpl, i + 1, text, mo)

\* the filled templates of the matches ms[j..] that start at offset i
RECURSIVE StartingAt(_, _, _, _, _)
StartingAt(text, tpl, ms, j, i) ==
    IF j > Len(ms) THEN <<>>
    ELSE (IF ms[j].span[1] = i THEN Filled(tpl, 1, text, ms[j]) ELSE <<>>)
         \o StartingAt(text, tpl, ms, j + 1, i)

\* the character at offset i, unless a match covers it
Kept(text, ms, i) ==
    IF i < Len(text) /\ \A j \in DOMAIN ms : ~(ms[j].span[1] <= i /\ i < ms[j].span[2])
    THEN <<text[i + 1]>>
    ELSE <<>>

\* the text from offset i on: at each offset the replacements of the matches
\* that start there, then the character there if no match covers it
RECURSIVE Replaced(_, _, _, _)
Replaced(text, tpl, ms, i) ==
    IF i > Len(text) THEN <<>>
    ELSE StartingAt(text, tpl, ms, 1, i) \o Kept(text, ms, i)
         \o Replaced(text, tpl, ms, i + 1)

\* every reference of the template names a group of a pattern with ng groups
RefsWithin(tpl, ng) ==
    \A i \in 1..(Len(tpl) - 1) :
        tpl[i] = "\\" => (tpl[i + 1] \in GroupDigits /\ DigitVal(tpl[i + 1]) <= ng)

EmailPattern == <<"(", "\\", "w", "+", ")", "@", "(", "\\", "w", "+", ")">>
SwapTemplate == <<"\\", "2", "@", "\\", "1">>
EmailText == <<"w", "r", "i", "t", "e", " ", "t", "o", " ", "a", "@", "b">>

\* C13 for a replace call on a pattern that compiled to c, with the matches ms
C13_Result(c, ms) ==
    RefsWithin(last.arg[1], c.groups)
        => /\ last.raised = "none"
           /\ last.value = Some(Replaced(last.text, last.arg[1], ms, 0))

\* C13: replace puts, in place of the span of each match find_all finds and
\* of nothing else, the template with each reference \k replaced by group k
\* of that match, the empty string when the group took no part, and raises
\* nothing; (\w+)@(\w+) with \2@\1 on "write to a@b" gives "write to b@a".
C13_ReplaceEveryMatch ==
    (last.op = "replace" /\ last.pattern # <<>> /\ Compiles(last.pattern, 0))
        => /\ C13_Result(re_compile(last.pattern, 0),
                         re_finditer(re_compile(last.pattern, 0).ast,
                                     re_compile(last.pattern, 0).groups,
                                     last.text, 0, FALSE))
           /\ (last.pattern = EmailPattern /\ last.arg = Some(SwapTemplate)
               /\ last.text = EmailText)
                  => last.value = Some(<<"w", "r", "i", "t", "e", " ", "t", "o", " ",
                                         "b", "@", "a">>)

\* replace swapped the two groups of the example
C13_Witness ==
    /\ last.op = "replace"
    /\ last.pattern = EmailPattern
    /\ last.arg = Some(SwapTemplate)
    /\ last.text = EmailText
    /\ last.raised = "none"
    /\ last.value # Some(last.text)

----------------------------------------------------------------------------
(* regex_documentor.py: RegexDocumenter.document_pattern.  sre_parse.parse *)
(* is the parser above; the patterns documented hold no "|", whose         *)
(* branches sre_parse rewrites before the documenter sees them.            *)

MaxDocLen == 3

\* str(ord(c)) for the literals of the documented patterns
OrdStr(c) == IF c = "a" THEN "97" ELSE "98"

\* the items of a parsed sequence
Items(n) == IF n.t = "cat" THEN n.subs ELSE <<n>>

\* repr of the upper bound of a repeat
MaxStr(max) == IF max = None THEN "MAXREPEAT" ELSE ToString(max[1])
MaxStrLen(max) == IF max = None THEN 9 ELSE 1

RECURSIVE ReprNode(_)
RECURSIVE ReprItems(_, _)
RECURSIVE ReprLen(_)
RECURSIVE ReprItemsLen(_, _)

\* str(item) for a parsed sequence: "[" its items, separated by ", ", "]"
ReprSeq(n) == "[" \o ReprItems(Items(n), 1) \o "]"
ReprItems(items, k) ==
    IF k > Len(items) THEN ""
    ELSE ReprNode(items[k]) \o (IF k < Len(items) THEN ", " ELSE "")
         \o ReprItems(items, k + 1)

\* repr of one (op, args) item of sre_parse
ReprNode(n) ==
    IF n.t = "lit" THEN "(LITERAL, " \o OrdStr(n.c) \o ")"
    ELSE IF n.t = "any" THEN "(ANY, None)"
    ELSE IF n.t = "word" THEN "(IN, [(CATEGORY, CATEGORY_WORD)])"
    ELSE IF n.t = "grp"
    THEN "(SUBPATTERN, (" \o ToString(n.idx) \o ", 0, 0, " \o ReprSeq(n.sub) \o "))"
    ELSE IF n.t = "poss"
    THEN "(POSSESSIVE_REPEAT, (" \o ToString(n.sub.min) \o ", " \o MaxStr(n.sub.max)
         \o ", " \o ReprSeq(n.sub.sub) \o "))"
    ELSE (IF n.greedy THEN "(MAX_REPEAT, (" ELSE "(MIN_REPEAT, (")
         \o ToString(n.min) \o ", " \o MaxStr(n.max) \o ", " \o ReprSeq(n.sub) \o "))"

\* len(str(item))
ReprSeqLen(n) == 2 + ReprItemsLen(Items(n), 1)
ReprItemsLen(items, k) ==
    IF k > Len(items) THEN 0
    ELSE ReprLen(items[k]) + (IF k < Len(items) THEN 2 ELSE 0)
         + ReprItemsLen(items, k + 1)
ReprLen(n) ==
    IF n.t = "lit" THEN 13
    ELSE IF n.t = "any" THEN 11
    ELSE IF n.t = "word" THEN 33
    ELSE IF n.t = "grp" THEN 25 + ReprSeqLen(n.sub)
    ELSE IF n.t = "poss" THEN 27 + MaxStrLen(n.sub.max) + ReprSeqLen(n.sub.sub)
    ELSE 20 + MaxStrLen(n.max) + ReprSeqLen(n.sub)

\* _get_quantifier_str, lines 183-196
GetQuantifierStr(min_count, max_count) ==
    IF min_count = 0 /\ max_count = None THEN "*"
    ELSE IF min_count = 1 /\ max_count = None THEN "+"
    ELSE IF min_count = 0 /\ max_count = Some(1) THEN "?"
    ELSE IF Some(min_count) = max_count THEN "{" \o ToString(min_count) \o "}"
    ELSE IF max_count = None THEN "{" \o ToString(min_count) \o ",}"
    ELSE "{" \o ToString(min_count) \o "," \o ToString(max_count[1]) \o "}"

\* len(quantifier), for counts of one digit
QuantifierLen(min_count, max_count) ==
    IF max_count = None THEN (IF min_count <= 1 THEN 1 ELSE 4)
    ELSE IF min_count = 0 /\ max_count = Some(1) THEN 1
    ELSE IF Some(min_count) = max_count THEN 3
    ELSE 5

\* _describe_quantifier, lines 198-213: the entry of QUANTIFIER_DESC for the
\* quantifier string, else the words for the numbers between its braces
DescribeQuantifier(min_count, max_count) ==
    IF min_count = 0 /\ max_count = None THEN "zero or more times"
    ELSE IF min_count = 1 /\ max_count = None THEN "one or more times"
    ELSE IF min_count = 0 /\ max_count = Some(1) THEN "optionally"
    ELSE IF Some(min_count) = max_count THEN "exactly " \o ToString(min_count) \o " times"
    ELSE IF max_count = None THEN "at least " \o ToString(min_count) \o " times"
    ELSE "between " \o ToString(min_count) \o " and " \o ToString(max_count[1]) \o " times"

\* class RegexComponent
RegexComponent(pattern, explanation, start_pos, end_pos) ==
    [pattern |-> pattern, explanation |-> explanation,
     start_pos |-> start_pos, end_pos |-> end_pos]

\* the component appended for the repeat n at current_pos, lines 120-131:
\* MAX_REPEAT and MIN_REPEAT take the same branch
RepeatComponent(n, current_pos) ==
    RegexComponent(ReprSeq(n.sub) \o GetQuantifierStr(n.min, n.max),
                   "Match the pattern '" \o ReprSeq(n.sub) \o "' "
                       \o DescribeQuantifier(n.min, n.max),
                   current_pos,
                   current_pos + ReprSeqLen(n.sub) + QuantifierLen(n.min, n.max))

\* the component appended for a one-character item, lines 91-108
CharComponent(n, current_pos) ==
    IF n.t = "lit"
    THEN RegexComponent(n.c, "Match the literal character '" \o n.c \o "'",
                        current_pos, current_pos + 1)
    ELSE RegexComponent(".", "Match any character except newline",
                        current_pos, current_pos + 1)

\* _process_parsed_pattern, lines 88-143: the components of items[k..] from
\* current_pos.  Literals, "." and greedy or lazy repeats get a component;
\* "\w" alone is a set (IN) holding a category, of which _process_charset
\* and _describe_charset show nothing; the loop has no branch for groups
\* and possessive repeats.
RECURSIVE ProcessParsedPattern(_, _, _)
ProcessParsedPattern(items, k, current_pos) ==
    IF k > Len(items) THEN <<>>
    ELSE IF items[k].t \in {"lit", "any"}
    THEN <<CharComponent(items[k], current_pos)>>
         \o ProcessParsedPattern(items, k + 1, current_pos + 1)
    ELSE IF items[k].t = "word"
    THEN <<RegexComponent("[]", "Match any of: ", current_pos, current_pos + 2)>>
         \o ProcessParsedPattern(items, k + 1, current_pos + 2)
    ELSE IF items[k].t = "rep"
    THEN <<RepeatComponent(items[k], current_pos)>>
         \o ProcessParsedPattern(items, k + 1,
                                 RepeatComponent(items[k], current_pos).end_pos)
    ELSE ProcessParsedPattern(items, k + 1, current_pos)

\* lines 64-70: the numbered explanations; the components are in the order
\* of their start_pos already, which the stable sort keeps
RECURSIVE Breakdown(_, _)
Breakdown(comps, i) ==
    IF i > Len(comps) THEN ""
    ELSE "\n" \o ToString(i) \o ". " \o comps[i].explanation
         \o (IF i < Len(comps) THEN "\n" ELSE "")
         \o Breakdown(comps, i + 1)

\* document_pattern, lines 57-75, for the parse result r: the text returned
\* and the components left in the documenter
FullDoc(p, comps) == "Pattern: " \o Str(p) \o "\n\nBreakdown:\n" \o Breakdown(comps, 1)
Documented(p, r, before) ==
    IF r.ok
    THEN [doc |-> FullDoc(p, ProcessParsedPattern(Items(r.node), 1, 0)),
          components |-> ProcessParsedPattern(Items(r.node), 1, 0)]
    ELSE [doc |-> "Error: Invalid regex pattern - " \o ErrorStr(r.msg, r.pos),
          components |-> before]

DocPatterns ==
    SeqsUpTo({"a", "b", ".", "*", "+", "?"}, MaxDocLen)
    \cup {<<"(", "a", ")", "*">>, <<"(", "a", ")", "*", "?">>, <<"(", "a", ")">>,
          <<"(", "a", "b", "*", ")", "+", "?">>, <<"a", "*", "*">>}

DocInit ==
    /\ pat \in DocPatterns
    /\ txt = <<>>
    /\ cache = <<>>
    /\ nextId = 0
    /\ compiles = <<>>
    /\ returned = <<>>
    /\ last = Idle
    /\ validated = {}
    /\ pc = <<>>
    /\ loc = <<>>
    /\ components = <<>>
    /\ memo = NoMemo
    /\ scan = NoScan

\* the outcome of a document_pattern call that left the components comps
DocOutcome(p, d) ==
    [Outcome("document_pattern", p, 0, <<>>) EXCEPT
        !.value = Some(d.doc),
        !.steps = <<IF Parse(p).ok THEN "parse_ok" ELSE "parse_error">>]

document_pattern(p) ==
    /\ components' = Documented(p, Parse(p), components).components
    /\ last' = DocOutcome(p, Documented(p, Parse(p), components))
    /\ UNCHANGED <<cache, nextId, compiles, returned, pat, txt, validated, pc, loc,
                   memo, scan>>

\* a behaviour documents its own pattern, and a valid and an invalid one besides
DocNext == \E p \in {pat, <<"a", "*">>, <<"a", "*", "*">>} : document_pattern(p)

SpecDoc == DocInit /\ [][DocNext]_vars

----------------------------------------------------------------------------
(* Properties of document_pattern *)

\* the node n with every lazy repeat made greedy
RECURSIVE Greedied(_)
Greedied(n) ==
    IF n.t \in {"lit", "any", "word"} THEN n
    ELSE IF n.t \in {"cat", "alt"}
    THEN [n EXCEPT !.subs = [k \in DOMAIN n.subs |-> Greedied(n.subs[k])]]
    ELSE IF n.t \in {"grp", "poss"} THEN [n EXCEPT !.sub = Greedied(n.sub)]
    ELSE [n EXCEPT !.greedy = TRUE, !.sub = Greedied(n.sub)]

\* the explanations of a list of components
Explanations(comps) == [j \in DOMAIN comps |-> comps[j].explanation]

\* the words that stand for the bounds of * + and ?
BoundsWords(min, max) ==
    IF max = Some(1) THEN "optionally"
    ELSE IF min = 0 THEN "zero or more times"
    ELSE "one or more times"

\* the patterns that differ from the parsed pattern a in the greediness of
\* their repeats only
GreedinessTwins(a) ==
    {q \in DocPatterns :
        Parse(q).ok /\ Parse(q).node # a /\ Greedied(Parse(q).node) = Greedied(a)}

\* C14 for a documented pattern that parsed to a
C14_Reported(a) ==
    /\ \A q \in GreedinessTwins(a) :
           Explanations(components)
               # Explanations(ProcessParsedPattern(Items(Parse(q).node), 1, 0))
    /\ \A k \in DOMAIN Items(a) :
           Items(a)[k].t = "rep"
               => \E j \in DOMAIN components :
                      components[j].explanation
                          = "Match the pattern '" \o ReprSeq(Items(a)[k].sub) \o "' "
                            \o BoundsWords(Items(a)[k].min, Items(a)[k].max)

\* C14: the explanations document_pattern gives for a pattern differ from
\* those it gives for a pattern with the same repeats of another greediness
\* (a*? against a*), and the explanation of each repeat shows its parsed
\* min and max.
C14_RepeatShowsBoundsAndGreediness ==
    (last.op = "document_pattern" /\ last.steps = <<"parse_ok">>)
        => C14_Reported(Parse(last.pattern).node)

----------------------------------------------------------------------------
(* utils.py: RegexUtils.escape_special_chars under functools.lru_cache     *)

maxsize == 128
MaxFresh == 130

\* special_chars, line 79
special_chars == <<".", "^", "$", "*", "+", "?", "{", "}", "[", "]", "\\", "|", "(", ")">>

\* line 80: ''.join('\\' + char if char in special_chars else char for char in pattern)
RECURSIVE EscapeFrom(_, _)
EscapeFrom(p, i) ==
    IF i > Len(p) THEN <<>>
    ELSE (IF \E k \in DOMAIN special_chars : special_chars[k] = p[i]
          THEN <<"\\", p[i]>> ELSE <<p[i]>>)
         \o EscapeFrom(p, i + 1)
Escape(p) == EscapeFrom(p, 1)

\* the characters of the arguments: the special ones and two others
ArgChars == special_chars \o <<"a", "_">>

\* the n-th argument of a behaviour: 0 is the empty string, then the strings
\* over ArgChars by length
RECURSIVE ArgOf(_)
ArgOf(n) ==
    IF n = 0 THEN <<>>
    ELSE Append(ArgOf((n - 1) \div Len(ArgChars)), ArgChars[((n - 1) % Len(ArgChars)) + 1])

\* the position of the key p among the entries, 0 when it is not there
Position(entries, p) ==
    IF \E j \in DOMAIN entries : entries[j].key = p
    THEN CHOOSE j \in DOMAIN entries : entries[j].key = p
    ELSE 0

\* a cache that never drops an entry
KeepAll(entries) == entries

\* a full cache drops its least recently used entry before it takes a new one
Evicted(entries) == IF Len(entries) >= maxsize THEN Tail(entries) ELSE entries

\* a hit moves the entry at position j to the most recently used end
Touched(entries, j) ==
    SubSeq(entries, 1, j - 1) \o SubSeq(entries, j + 1, Len(entries)) \o <<entries[j]>>

\* the entries after a call with p that found it at position j (0: a miss)
EntriesAfter(entries, p, j) ==
    IF j # 0 THEN Touched(entries, j)
    ELSE Append(Evicted(entries), [key |-> p, result |-> Escape(p)])

\* what the call returns: the stored result on a hit, the computed one on a miss
Returned(entries, p, j) == IF j # 0 THEN entries[j].result ELSE Escape(p)

\* whether the argument p was used before, m being the memo with its history
UsedBefore(m, p) ==
    \/ p = ArgOf(0) /\ m.seen0
    \/ \E k \in 1..(m.fresh - 1) : p = ArgOf(k)

EscapeOutcome(m, p, j) ==
    [Outcome("escape_special_chars", p, 0, <<>>) EXCEPT
        !.hit = j # 0,
        !.prior = UsedBefore(m, p),
        !.value = Some(Returned(m.entries, p, j))]

\* a call with the n-th argument: argument 0, or the next one not used before
escape_special_chars(n) ==
    /\ n = 0 \/ (n = memo.fresh /\ n <= MaxFresh)
    /\ memo' = [entries |-> EntriesAfter(memo.entries, ArgOf(n),
                                         Position(memo.entries, ArgOf(n))),
                fresh |-> IF n = 0 THEN memo.fresh ELSE memo.fresh + 1,
                seen0 |-> memo.seen0 \/ n = 0]
    /\ last' = EscapeOutcome(memo, ArgOf(n), Position(memo.entries, ArgOf(n)))
    /\ UNCHANGED <<cache, nextId, compiles, returned, pat, txt, validated, pc, loc,
                   components, scan>>

EscapeNext ==
    \/ escape_special_chars(0)
    \/ escape_special_chars(memo.fresh)

\* the cache is empty when the module is imported, as in CacheInit
SpecEscape == CacheInit /\ [][EscapeNext]_vars

----------------------------------------------------------------------------
(* Properties of the memoised escape_special_chars *)

SpecialSet == {".", "^", "$", "*", "+", "?", "{", "}", "[", "]", "\\", "|", "(", ")"}

\* the unmemoised function, from the last character back: each special
\* character gets one backslash before it, every other character stays
RECURSIVE Unmemoised(_)
Unmemoised(p) ==
    IF p = <<>> THEN <<>>
    ELSE Unmemoised(SubSeq(p, 1, Len(p) - 1))
         \o (IF p[Len(p)] \in SpecialSet THEN <<"\\", p[Len(p)]>> ELSE <<p[Len(p)]>>)

\* the entries hold distinct keys, each with the result of the function
ExactEntries(entries) ==
    /\ Cardinality({entries[j].key : j \in DOMAIN entries}) = Len(entries)
    /\ \A j \in DOMAIN entries : entries[j].result = Unmemoised(entries[j].key)

\* the entries kept for the arguments other than argument 0, oldest first
OthersKept(entries) == SelectSeq(entries, LAMBDA e : e.key # ArgOf(0))

\* what the memo has dropped is what was used least recently: the arguments
\* other than argument 0 are used once each, in the order of their index, and
\* the memo holds the latest of them, oldest first, up to the latest one used
LatestOnes(kept, fresh) ==
    \A j \in DOMAIN kept : kept[j].key = ArgOf(fresh - Len(kept) + j - 1)
LatestKept(m) == LatestOnes(OthersKept(m.entries), m.fresh)

\* C15: after any calls the memo of escape_special_chars holds at most 128
\* entries, a full memo having dropped its least recently used entries, and
\* every call, served from the memo or computed, returns what the
\* unmemoised function returns: each special character with one backslash
\* before it and every other character unchanged.
C15_MemoBoundedAndExact ==
    /\ Len(memo.entries) <= 128
    /\ ExactEntries(memo.entries)
    /\ LatestKept(memo)
    /\ last.op = "escape_special_chars"
           => /\ last.value = Some(Unmemoised(last.pattern))
              /\ memo.entries[Len(memo.entries)].key = last.pattern

\* a call computed again the result of an argument that a full memo had dropped
C15_Witness ==
    /\ last.op = "escape_special_chars"
    /\ last.prior
    /\ ~last.hit
    /\ Len(memo.entries) = 128
    /\ last.value = Some(<<>>)

----------------------------------------------------------------------------
(* utils.py: RegexUtils.extract_pattern_components, one action for each    *)
(* iteration of its scanning loop.  The index i is 0-based as in the code. *)

MaxScanLen == 3
MaxIters == 4

\* pattern[i:j], with j cut at the end of the pattern
PySlice(p, i, j) == SubSeq(p, i + 1, IF j > Len(p) THEN Len(p) ELSE j)

\* lines 127-128: while j < len(pattern) and pattern[j] != ']': j += 1
RECURSIVE ClassEnd(_, _)
ClassEnd(p, j) == IF j < Len(p) /\ p[j + 1] # "]" THEN ClassEnd(p, j + 1) ELSE j

\* lines 135-140: while j < len(pattern) and depth > 0, counting parentheses
RECURSIVE GroupEnd(_, _, _)
GroupEnd(p, j, depth) ==
    IF j < Len(p) /\ depth > 0
    THEN GroupEnd(p, j + 1,
                  IF p[j + 1] = "(" THEN depth + 1
                  ELSE IF p[j + 1] = ")" THEN depth - 1
                  ELSE depth)
    ELSE j

\* line 146
Metacharacters == {".", "^", "$", "*", "+", "?", "{", "}", "|"}

\* lines 120-147: the locals after the branch taken for pattern[i]
Branch(sc, p, i) ==
    IF p[i + 1] = "\\"
    THEN IF i + 1 < Len(p)
         THEN [sc EXCEPT !.current = PySlice(p, i, i + 2),
                         !.category = "escape_sequence", !.i = i + 2]
         ELSE sc
    ELSE IF p[i + 1] \in {"[", "]"}
    THEN [sc EXCEPT !.current = PySlice(p, i, ClassEnd(p, i + 1) + 1),
                    !.category = "character_class", !.i = ClassEnd(p, i + 1) + 1]
    ELSE IF p[i + 1] \in {"(", ")"}
    THEN [sc EXCEPT !.current = PySlice(p, i, GroupEnd(p, i + 1, 1)),
                    !.category = "group", !.i = GroupEnd(p, i + 1, 1)]
    ELSE [sc EXCEPT !.current = <<p[i + 1]>>,
                    !.category = IF p[i + 1] \in Metacharacters
                                 THEN "metacharacter" ELSE "literal",
                    !.i = i + 1]

\* lines 149-151: a non-empty current is appended and reset
Collected(sc) ==
    IF sc.current # <<>>
    THEN [sc EXCEPT !.components = Append(sc.components, <<sc.current, sc.category>>),
                    !.current = <<>>]
    ELSE sc

\* one iteration of the loop; iters counts the iterations run
Iterated(sc) == [Collected(Branch(sc, sc.pattern, sc.i)) EXCEPT !.iters = sc.iters + 1]

ScanPatterns == SeqsUpTo({"a", "*", "\\", "[", "]", "(", ")"}, MaxScanLen)

ScanInit ==
    /\ pat \in ScanPatterns
    /\ txt = <<>>
    /\ cache = <<>>
    /\ nextId = 0
    /\ compiles = <<>>
    /\ returned = <<>>
    /\ last = Idle
    /\ validated = {}
    /\ pc = <<>>
    /\ loc = <<>>
    /\ components = <<>>
    /\ memo = NoMemo
    /\ scan = NoScan

\* lines 114-118: the call starts
ScanCall ==
    /\ ~scan.running
    /\ last.op = "none"
    /\ scan' = [running |-> TRUE, pattern |-> pat, i |-> 0, current |-> <<>>,
                category |-> "", components |-> <<>>, iters |-> 0]
    /\ UNCHANGED <<cache, nextId, compiles, returned, last, pat, txt, validated, pc, loc,
                   components, memo>>

\* lines 119-151: the loop condition holds and the body runs once
ScanIteration ==
    /\ scan.running
    /\ scan.i < Len(scan.pattern)
    /\ scan.iters < MaxIters
    /\ scan' = Iterated(scan)
    /\ UNCHANGED <<cache, nextId, compiles, returned, last, pat, txt, validated, pc, loc,
                   components, memo>>

\* line 153: the loop condition fails and the components are returned
ScanReturn ==
    /\ scan.running
    /\ scan.i >= Len(scan.pattern)
    /\ scan' = NoScan
    /\ last' = [Outcome("extract_pattern_components", scan.pattern, 0, <<>>) EXCEPT
                   !.value = Some(scan.components)]
    /\ UNCHANGED <<cache, nextId, compiles, returned, pat, txt, validated, pc, loc,
                   components, memo>>

ExtractNext == ScanCall \/ ScanIteration \/ ScanReturn

SpecScan == ScanInit /\ [][ExtractNext]_vars

----------------------------------------------------------------------------
(* Properties of extract_pattern_components *)

\* C16: every iteration of the scanning loop of extract_pattern_components
\* moves the index i forward, also at a lone backslash, an unclosed "[" or
\* an unclosed "(" at the end of the pattern, so that the loop ends.
C16_IndexStrictlyIncreases ==
    [][(scan.running /\ scan'.running) => scan'.i > scan.i]_vars

====
